---- MODULE Spec2Model ----
\* Poll cycle of the NanoKVM data update coordinator
\* (custom_components/nanokvm/coordinator.py) with the SSH metrics collector
\* (ssh_metrics.py) it drives.
\*
\* A value held by the coordinator is a record [st, v]: v is what the value
\* says ("null" for None), st tells when it was assigned: "cur" in the pass of
\* _async_update_data that is running (or that ran last), "old" before it.
\* Every fetch yields a new value, so st = "cur" also means "not the value held
\* before the pass".
EXTENDS Integers, Sequences, FiniteSets, TLC

VARIABLES
    pc,                     \* position of the refresh: "idle" between refreshes
    idx,                    \* index in Order of the next endpoint to fetch
    depth,                  \* nesting of _async_update_data (1 = first pass)
    err,                    \* error being handled; between refreshes, the
                            \* error that ended the last one ("none" if none)
    f,                      \* the 17 device-state attributes of the coordinator
    m,                      \* the 6 secondary-metrics attributes
    client,                 \* coordinator.client: [id, token]
    new_client,             \* the local new_client of the reauth branch
    created,                \* sessions created by the running refresh
    ssh_metrics_collector,  \* TRUE when the collector slot holds a collector
    ssh_client,             \* the collector's session: "none", "live", "dead"
    ssh_sensors_created,
    data,                   \* the published snapshot, named by what returned it
    result,                 \* how the last refresh ended
    dirty,                  \* a device-state attribute was assigned since the
                            \* refresh began
    collected,              \* what the command-channel branch did in the
                            \* refresh: "none", "stored", "failed", "cleared"
    calls,                  \* the calls the running pass has made on the API
                            \* session and on the command channel, in order
    outcome,                \* how the last of them ended ("none" before it)
    unit,                   \* one function of ssh_metrics.py applied on its
                            \* own: [fn, arg, out]
    signals,                \* SIGNAL_NEW_SSH_SENSORS sent since the sensors
                            \* flag was last cleared
    unload,                 \* async_unload_entry of this entry: "loaded",
                            \* "disconnect" (awaiting line 96), "unloaded"
    hass,                   \* hass.data[DOMAIN], the services, and the setup
                            \* and unload flows of the config entries
    service,                \* one call of a service: the loop of
                            \* _execute_service over the registry
    flow                    \* one config flow: the form shown, self.data, and
                            \* what the step invoked last did

vars ==
    <<pc, idx, depth, err, f, m, client, new_client, created,
      ssh_metrics_collector, ssh_client, ssh_sensors_created, data, result,
      dirty, collected, calls, outcome, unit, signals, unload, hass, service,
      flow>>

\* Nesting at which the interpreter refuses another recursive call
\* (RecursionError); the code itself has no bound.
MaxDepth ==
    3

\* ------------------------------------------------------------------ values

Old(v) ==
    [st |-> "old", v |-> v]

Cur(v) ==
    [st |-> "cur", v |-> v]

Aged(x) ==
    [x EXCEPT !.st = "old"]

\* Order with get_gpio ahead of get_hardware.
OrderGpioBeforeHardware ==
    <<"device_info", "hostname_info", "gpio_info", "hardware_info",
      "virtual_device_info", "ssh_state", "mdns_state", "hid_mode",
      "oled_info", "wifi_status", "application_version_info", "hdmi_state",
      "mouse_jiggler_state", "swap_size", "tailscale_status">>

\* The endpoints of lines 99-119, in the order they are awaited.
Order ==
    <<"device_info", "hostname_info", "hardware_info", "gpio_info",
      "virtual_device_info", "ssh_state", "mdns_state", "hid_mode",
      "oled_info", "wifi_status", "application_version_info", "hdmi_state",
      "mouse_jiggler_state", "swap_size", "tailscale_status">>

\* The endpoints wrapped in their own try/except (lines 109-112, 116-119).
Optional ==
    {"application_version_info", "tailscale_status"}

Range(s) ==
    {s[i] : i \in 1..Len(s)}

\* Keys of the dict returned at lines 146-164.
SnapshotKeys ==
    Range(Order) \cup {"mounted_image", "cdrom_status"}

Metrics ==
    {"uptime", "cpu_temperature", "memory_total", "memory_used_percent",
     "storage_total", "storage_used_percent"}

\* What a successful call of an endpoint can return.
Answers(k) ==
    CASE k = "device_info" -> {"real"}
      [] k = "ssh_state" -> {"enabled", "disabled"}
      [] k = "hid_mode" -> {"normal", "hid_only"}
      [] OTHER -> {"val"}

\* ------------------------------------------------------------------ errors

NanoKVMAuthenticationFailure ==
    {"AuthFailure"}

NanoKVMApiError ==
    {"ApiError"}

NanoKVMError ==
    NanoKVMAuthenticationFailure \cup NanoKVMApiError

ClientResponseError ==
    {"Resp401", "RespOther"}

ClientError ==
    ClientResponseError \cup {"Transport"}

TimeoutError ==
    {"Timeout"}

\* The closed error set of an API call.
ApiErrors ==
    NanoKVMError \cup ClientError \cup TimeoutError

\* ------------------------------------------------------------------- init

NoSession ==
    [id |-> -1, token |-> FALSE]

\* The registry and the services are not followed.
NoHass ==
    [entry |-> <<>>, present |-> FALSE, coordinators |-> {}, services |-> {}]

\* No service is being called.
NoCall ==
    [pc |-> "none"]

\* No config flow is under way.
NoFlow ==
    [step |-> "none"]

\* No function of ssh_metrics.py is looked at on its own.
NoUnit ==
    [fn |-> "none", arg |-> <<>>, out |-> <<>>]

\* async_setup_entry: authenticate and get_info both succeeded; or one of
\* them failed with a communication error and the placeholder identity was
\* built (the token is held when it was get_info that failed).
Setup ==
    /\ pc = "idle"
    /\ idx = 0
    /\ depth = 0
    /\ err = "none"
    /\ \E setup \in {"ok", "info_failed", "auth_failed"} :
        /\ f = [k \in SnapshotKeys |->
                  IF k = "device_info"
                  THEN Old(IF setup = "ok" THEN "real" ELSE "Unknown")
                  ELSE Old("null")]
        /\ client = [id |-> 0, token |-> setup # "auth_failed"]
    /\ m = [k \in Metrics |-> Old("null")]
    /\ new_client = NoSession
    /\ created = 0
    /\ ssh_metrics_collector = FALSE
    /\ ssh_client = "none"
    /\ ssh_sensors_created = FALSE
    /\ data = Old("none")
    /\ result = "none"
    /\ dirty = FALSE
    /\ collected = "none"
    /\ calls = <<>>
    /\ outcome = "none"
    /\ signals = 0
    /\ unload = "loaded"

\* The integration is set up and no refresh has run.
Init ==
    /\ Setup
    /\ unit = NoUnit
    /\ hass = NoHass
    /\ service = NoCall
    /\ flow = NoFlow

\* ------------------------------------------------------------ poll cycle

\* The pass awaits call, which ends with o: "ok" or the error it raises.
Issue(call, o) ==
    /\ calls' = Append(calls, call)
    /\ outcome' = o

\* Enter with an authenticate call at the start of every pass.
EnterAlwaysAuthenticate(c) ==
    "auth"

\* Lines 95-97: the pass authenticates first when the session has no token.
Enter(c) ==
    IF c.token THEN "fetch" ELSE "auth"

\* An exception leaves the try block of lines 94-164.
Raise(kind) ==
    /\ pc' = "handle"
    /\ err' = kind

\* The refresh ends with the snapshot of lines 146-164, which the base
\* coordinator publishes.
ReturnSnapshot ==
    /\ pc' = "idle"
    /\ err' = "none"
    /\ result' = "snapshot"
    /\ data' = Cur("snapshot")

\* The refresh ends with UpdateFailed from kind; nothing is published.
RaiseUpdateFailed(kind) ==
    /\ pc' = "idle"
    /\ err' = kind
    /\ result' = "UpdateFailed"
    /\ data' = data

\* The scheduler starts a refresh; what is held now becomes "old".
StartRefresh ==
    /\ pc = "idle"
    /\ pc' = Enter(client)
    /\ idx' = 1
    /\ depth' = 1
    /\ err' = "none"
    /\ f' = [k \in SnapshotKeys |-> Aged(f[k])]
    /\ m' = [k \in Metrics |-> Aged(m[k])]
    /\ client' = [client EXCEPT !.id = 0]
    /\ new_client' = NoSession
    /\ created' = 0
    /\ data' = Aged(data)
    /\ result' = "running"
    /\ dirty' = FALSE
    /\ collected' = "none"
    /\ UNCHANGED <<ssh_metrics_collector, ssh_client, ssh_sensors_created>>
    /\ calls' = <<>>
    /\ outcome' = "none"
    /\ UNCHANGED <<unit, signals, unload, hass, service, flow>>

\* Line 97.
Authenticate ==
    /\ pc = "auth"
    /\ \E o \in {"ok"} \cup ApiErrors :
        /\ Issue("authenticate", o)
        /\ IF o = "ok"
           THEN /\ client' = [client EXCEPT !.token = TRUE]
                /\ pc' = "fetch"
                /\ err' = err
           ELSE /\ Raise(o)
                /\ client' = client
    /\ UNCHANGED <<idx, depth, f, m, new_client, created,
                   ssh_metrics_collector, ssh_client, ssh_sensors_created,
                   data, result, dirty, collected>>
    /\ UNCHANGED <<unit, signals, unload, hass, service, flow>>

\* After the endpoint at idx: the next endpoint, or line 121.
Advance ==
    IF idx < Len(Order)
    THEN /\ pc' = "fetch"
         /\ idx' = idx + 1
    ELSE /\ pc' = "capability"
         /\ idx' = idx

\* Lines 99-108, 113-115: a required endpoint; any error leaves the try block.
FetchRequired ==
    /\ pc = "fetch"
    /\ Order[idx] \notin Optional
    /\ \E o \in {"ok"} \cup ApiErrors :
        /\ Issue(Order[idx], o)
        /\ IF o = "ok"
           THEN /\ \E a \in Answers(Order[idx]) :
                     f' = [f EXCEPT ![Order[idx]] = Cur(a)]
                /\ dirty' = TRUE
                /\ Advance
                /\ err' = err
           ELSE /\ Raise(o)
                /\ UNCHANGED <<idx, f, dirty>>
    /\ UNCHANGED <<depth, m, client, new_client, created,
                   ssh_metrics_collector, ssh_client, ssh_sensors_created,
                   data, result, collected>>
    /\ UNCHANGED <<unit, signals, unload, hass, service, flow>>

\* OptionalCaught with a handler for NanoKVMApiError only.
OptionalCaughtApiOnly ==
    NanoKVMApiError

\* The errors the optional endpoints turn into None (lines 111, 118).
OptionalCaught ==
    NanoKVMApiError \cup ClientResponseError

\* Lines 109-112, 116-119.
FetchOptional ==
    /\ pc = "fetch"
    /\ Order[idx] \in Optional
    /\ \E o \in {"ok"} \cup ApiErrors :
        /\ Issue(Order[idx], o)
        /\ IF o = "ok" \/ o \in OptionalCaught
           THEN /\ f' = [f EXCEPT ![Order[idx]] =
                           Cur(IF o = "ok" THEN "val" ELSE "null")]
                /\ dirty' = TRUE
                /\ Advance
                /\ err' = err
           ELSE /\ Raise(o)
                /\ UNCHANGED <<idx, f, dirty>>
    /\ UNCHANGED <<depth, m, client, new_client, created,
                   ssh_metrics_collector, ssh_client, ssh_sensors_created,
                   data, result, collected>>
    /\ UNCHANGED <<unit, signals, unload, hass, service, flow>>

\* EnterCapability taken whatever the hid mode is.
EnterCapabilityAnyMode ==
    /\ pc = "capability"
    /\ pc' = "mounted_image"
    /\ UNCHANGED <<idx, depth, err, f, m, client, new_client, created,
                   ssh_metrics_collector, ssh_client, ssh_sensors_created,
                   data, result, dirty, collected>>
    /\ UNCHANGED <<calls, outcome, unit, signals, unload, hass, service, flow>>

\* Line 121 taken: the two capability-gated endpoints are fetched.
EnterCapability ==
    /\ pc = "capability"
    /\ f["hid_mode"].v = "normal"
    /\ pc' = "mounted_image"
    /\ UNCHANGED <<idx, depth, err, f, m, client, new_client, created,
                   ssh_metrics_collector, ssh_client, ssh_sensors_created,
                   data, result, dirty, collected>>
    /\ UNCHANGED <<calls, outcome, unit, signals, unload, hass, service, flow>>

\* SkipCapability without the assignments of lines 138-139.
SkipCapabilityStale ==
    /\ pc = "capability"
    /\ f["hid_mode"].v # "normal"
    /\ pc' = "ssh_branch"
    /\ UNCHANGED <<idx, depth, err, f, m, client, new_client, created,
                   ssh_metrics_collector, ssh_client, ssh_sensors_created,
                   data, result, dirty, collected>>
    /\ UNCHANGED <<calls, outcome, unit, signals, unload, hass, service, flow>>

\* Lines 137-139: both fields get their empty sentinel without a fetch.
SkipCapability ==
    /\ pc = "capability"
    /\ f["hid_mode"].v # "normal"
    /\ f' = [f EXCEPT !["mounted_image"] = Cur("empty"),
                      !["cdrom_status"] = Cur("empty")]
    /\ dirty' = TRUE
    /\ pc' = "ssh_branch"
    /\ UNCHANGED <<idx, depth, err, m, client, new_client, created,
                   ssh_metrics_collector, ssh_client, ssh_sensors_created,
                   data, result, collected>>
    /\ UNCHANGED <<calls, outcome, unit, signals, unload, hass, service, flow>>

\* FetchGated without the try/except around the call.
FetchGatedUncaught(k, next) ==
    /\ pc = k
    /\ \E o \in {"ok"} \cup ApiErrors :
        /\ Issue(k, o)
        /\ IF o = "ok"
           THEN /\ f' = [f EXCEPT ![k] = Cur("val")]
                /\ dirty' = TRUE
                /\ pc' = next
                /\ err' = err
           ELSE /\ Raise(o)
                /\ UNCHANGED <<f, dirty>>
    /\ UNCHANGED <<idx, depth, m, client, new_client, created,
                   ssh_metrics_collector, ssh_client, ssh_sensors_created,
                   data, result, collected>>
    /\ UNCHANGED <<unit, signals, unload, hass, service, flow>>

\* Lines 122-136: one capability-gated endpoint; NanoKVMApiError gives the
\* empty sentinel, any other error leaves the try block.
FetchGated(k, next) ==
    /\ pc = k
    /\ \E o \in {"ok"} \cup ApiErrors :
        /\ Issue(k, o)
        /\ IF o = "ok" \/ o \in NanoKVMApiError
           THEN /\ f' = [f EXCEPT ![k] = Cur(IF o = "ok" THEN "val" ELSE "empty")]
                /\ dirty' = TRUE
                /\ pc' = next
                /\ err' = err
           ELSE /\ Raise(o)
                /\ UNCHANGED <<f, dirty>>
    /\ UNCHANGED <<idx, depth, m, client, new_client, created,
                   ssh_metrics_collector, ssh_client, ssh_sensors_created,
                   data, result, collected>>
    /\ UNCHANGED <<unit, signals, unload, hass, service, flow>>

FetchMountedImage ==
    FetchGated("mounted_image", "cdrom_status")

FetchCdromStatus ==
    FetchGated("cdrom_status", "ssh_branch")

\* --------------------------------------------------------- error handling

\* Line 165: the first except clause of _async_update_data.
CaughtFirst ==
    ClientResponseError \cup NanoKVMAuthenticationFailure

\* CaughtSecond without asyncio.TimeoutError.
CaughtSecondNoTimeout ==
    NanoKVMError \cup ClientError

\* Line 195: the second except clause.
CaughtSecond ==
    NanoKVMError \cup ClientError \cup TimeoutError

\* ReauthEligible without the test of the placeholder identity.
ReauthEligibleAnyIdentity ==
    err \in NanoKVMAuthenticationFailure \/ err = "Resp401"

\* Lines 166-176: the condition of the reauth branch, read when the error is
\* handled, on the identity the coordinator holds at that moment.
ReauthEligible ==
    /\ err \in NanoKVMAuthenticationFailure \/ err = "Resp401"
    /\ f["device_info"].v # "Unknown"

\* How a pass that ends with an exception ends the refresh. An exception of a
\* nested pass passes the "except Exception" of line 184 of every outer pass,
\* which raises UpdateFailed.
EndWith(caught) ==
    /\ pc' = "idle"
    /\ err' = err
    /\ result' = IF caught \/ depth > 1 THEN "UpdateFailed" ELSE "escaped"
    /\ data' = data

\* HandleError with the new session put into the slot as soon as it is made.
HandleErrorReplacingSlot ==
    /\ pc = "handle"
    /\ IF err \in CaughtFirst /\ ReauthEligible
       THEN /\ new_client' = [id |-> created + 1, token |-> FALSE]
            /\ client' = new_client'
            /\ created' = created + 1
            /\ pc' = "reauth"
            /\ UNCHANGED <<err, result, data>>
       ELSE /\ EndWith(err \in CaughtFirst \cup CaughtSecond)
            /\ UNCHANGED <<new_client, created, client>>
    /\ UNCHANGED <<idx, depth, f, m, ssh_metrics_collector,
                   ssh_client, ssh_sensors_created, dirty, collected>>
    /\ UNCHANGED <<calls, outcome, unit, signals, unload, hass, service, flow>>

\* Lines 165-196: the except clauses. The reauth branch builds a new session
\* (line 178); everything else ends the refresh.
HandleError ==
    /\ pc = "handle"
    /\ IF err \in CaughtFirst /\ ReauthEligible
       THEN /\ new_client' = [id |-> created + 1, token |-> FALSE]
            /\ created' = created + 1
            /\ pc' = "reauth"
            /\ UNCHANGED <<err, result, data>>
       ELSE /\ EndWith(err \in CaughtFirst \cup CaughtSecond)
            /\ UNCHANGED <<new_client, created>>
    /\ UNCHANGED <<idx, depth, f, m, client, ssh_metrics_collector,
                   ssh_client, ssh_sensors_created, dirty, collected>>
    /\ UNCHANGED <<calls, outcome, unit, signals, unload, hass, service, flow>>

\* Lines 180-181: the new session authenticates, outside the timeout scope.
\* Any error is caught at line 184 and ends the refresh with UpdateFailed.
ReauthAuthenticate ==
    /\ pc = "reauth"
    /\ \E o \in {"ok"} \cup ApiErrors :
        /\ Issue("authenticate_new", o)
        /\ IF o = "ok"
           THEN /\ new_client' = [new_client EXCEPT !.token = TRUE]
                /\ pc' = "swap"
                /\ UNCHANGED <<err, result, data>>
           ELSE /\ RaiseUpdateFailed(o)
                /\ new_client' = new_client
    /\ UNCHANGED <<idx, depth, f, m, client, created, ssh_metrics_collector,
                   ssh_client, ssh_sensors_created, dirty, collected>>
    /\ UNCHANGED <<unit, signals, unload, hass, service, flow>>

\* Lines 182-183: the slot takes the new session and the cycle runs again,
\* nested in this one. At MaxDepth the call raises RecursionError, which line
\* 184 catches.
SwapAndRetry ==
    /\ pc = "swap"
    /\ client' = new_client
    /\ IF depth < MaxDepth
       THEN /\ depth' = depth + 1
            /\ pc' = Enter(new_client)
            /\ idx' = 1
            /\ err' = "none"
            /\ f' = [k \in SnapshotKeys |-> Aged(f[k])]
            /\ m' = [k \in Metrics |-> Aged(m[k])]
            /\ calls' = <<>>
            /\ outcome' = "none"
            /\ UNCHANGED <<result, data>>
       ELSE /\ RaiseUpdateFailed("RecursionError")
            /\ UNCHANGED <<depth, idx, f, m, calls, outcome>>
    /\ UNCHANGED <<new_client, created, ssh_metrics_collector, ssh_client,
                   ssh_sensors_created, dirty, collected>>
    /\ UNCHANGED <<unit, signals, unload, hass, service, flow>>

\* ------------------------------------------------- command-channel branch

\* The commands of collect(), lines 46-49 of ssh_metrics.py, in order.
Commands ==
    <<"uptime", "cpu_temperature", "memory", "storage">>

\* The closed error set of a command-channel call.
SSHErrors ==
    {"SSHAuthFailure", "SSHTransport", "SSHTimeout"}

\* SSHCaught with a handler that names the channel's errors only.
SSHCaughtChannelOnly ==
    SSHErrors

\* What the "except Exception" of line 232 catches: every error of the
\* command channel and of the parsing of its output. The cancellation by
\* which the cycle timeout ends an await is no Exception and passes it.
SSHCaught ==
    SSHErrors \cup {"ParseError"}

\* NeedsAuthenticate without the liveness probe of the held session.
NeedsAuthenticateNoProbe(s) ==
    s = "none"

\* Lines 39-43 of ssh_metrics.py: no session, or a session whose transport is
\* not active.
NeedsAuthenticate(s) ==
    s # "live"

\* EnterSSHUpdate taken whatever the channel state.
EnterSSHUpdateAnyState ==
    /\ pc = "ssh_branch"
    /\ ssh_metrics_collector' = TRUE
    /\ pc' = IF NeedsAuthenticate(ssh_client) THEN "ssh_auth" ELSE "ssh_cmd"
    /\ idx' = 1
    /\ UNCHANGED <<depth, err, f, m, client, new_client, created, ssh_client,
                   ssh_sensors_created, data, result, dirty, collected>>
    /\ UNCHANGED <<calls, outcome, unit, signals, unload, hass, service, flow>>

\* Lines 141-142 and 200-207: the channel is enabled; the collector is made
\* when the slot is empty, and collect() starts with its liveness check.
EnterSSHUpdate ==
    /\ pc = "ssh_branch"
    /\ f["ssh_state"].v = "enabled"
    /\ ssh_metrics_collector' = TRUE
    /\ pc' = IF NeedsAuthenticate(ssh_client) THEN "ssh_auth" ELSE "ssh_cmd"
    /\ idx' = 1
    /\ UNCHANGED <<depth, err, f, m, client, new_client, created, ssh_client,
                   ssh_sensors_created, data, result, dirty, collected>>
    /\ UNCHANGED <<calls, outcome, unit, signals, unload, hass, service, flow>>

\* Line 44 of ssh_metrics.py. A failed or cancelled connection attempt leaves
\* no live session.
SSHAuthenticate ==
    /\ pc = "ssh_auth"
    /\ \E o \in {"ok", "cancelled"} \cup SSHErrors :
        /\ Issue("ssh_authenticate", o)
        /\ CASE o = "ok" ->
                   /\ ssh_client' = "live"
                   /\ pc' = "ssh_cmd"
                   /\ err' = err
             [] o = "cancelled" ->
                   /\ ssh_client' \in {"none", "dead"}
                   /\ Raise("Timeout")
             [] OTHER ->
                   /\ ssh_client' \in {"none", "dead"}
                   /\ pc' = "ssh_handle"
                   /\ err' = o
    /\ UNCHANGED <<idx, depth, f, m, client, new_client, created,
                   ssh_metrics_collector, ssh_sensors_created, data, result,
                   dirty, collected>>
    /\ UNCHANGED <<unit, signals, unload, hass, service, flow>>

\* StoreMetrics sending the signal whatever the sensors flag.
StoreMetricsAlwaysSignals ==
    /\ m' = [k \in Metrics |-> Cur("val")]
    /\ signals' = signals + 1
    /\ ssh_sensors_created' = TRUE
    /\ collected' = "stored"
    /\ ReturnSnapshot

\* Lines 211-230: collect() returned; the six metrics are stored and the
\* new-sensors signal is sent once.
StoreMetrics ==
    /\ m' = [k \in Metrics |-> Cur("val")]
    /\ signals' = IF ssh_sensors_created THEN signals ELSE signals + 1
    /\ ssh_sensors_created' = TRUE
    /\ collected' = "stored"
    /\ ReturnSnapshot

\* Lines 46-49 of ssh_metrics.py: one command is run and its output parsed.
\* An error of the last await of collect() is handled like the others.
SSHCommand ==
    /\ pc = "ssh_cmd"
    /\ \E o \in {"ok", "cancelled", "SSHTransport", "SSHTimeout", "ParseError"} :
        /\ Issue(Commands[idx], o)
        /\ CASE o = "ok" /\ idx < Len(Commands) ->
                   /\ idx' = idx + 1
                   /\ UNCHANGED <<pc, err, m, ssh_sensors_created, data, result,
                                  collected, signals>>
             [] o = "ok" /\ idx = Len(Commands) ->
                   /\ StoreMetrics
                   /\ idx' = idx
             [] o = "cancelled" ->
                   /\ Raise("Timeout")
                   /\ UNCHANGED <<idx, m, ssh_sensors_created, data, result,
                                  collected, signals>>
             [] OTHER ->
                   /\ pc' = "ssh_handle"
                   /\ err' = o
                   /\ UNCHANGED <<idx, m, ssh_sensors_created, data, result,
                                  collected, signals>>
    /\ UNCHANGED <<depth, f, client, new_client, created,
                   ssh_metrics_collector, ssh_client, dirty>>
    /\ UNCHANGED <<unit, unload, hass, service, flow>>

\* HandleSSHError clearing all six metrics, as _async_clear_ssh_data does.
HandleSSHErrorClearAll ==
    /\ pc = "ssh_handle"
    /\ IF err \in SSHCaught
       THEN /\ m' = [k \in Metrics |-> Cur("null")]
            /\ collected' = "failed"
            /\ IF ssh_metrics_collector /\ ssh_client # "none"
               THEN /\ pc' = "ssh_fail_disconnect"
                    /\ err' = "none"
                    /\ UNCHANGED <<data, result>>
               ELSE ReturnSnapshot
       ELSE /\ Raise(err)
            /\ UNCHANGED <<m, collected, data, result>>
    /\ UNCHANGED <<idx, depth, f, client, new_client, created,
                   ssh_metrics_collector, ssh_client, ssh_sensors_created,
                   dirty>>
    /\ UNCHANGED <<calls, outcome, unit, signals, unload, hass, service, flow>>

\* Lines 232-237: the handler of the collection. It clears uptime and
\* cpu_temperature and disconnects the collector's session when one is held
\* (line 34 of ssh_metrics.py); then the cycle goes on to line 146.
HandleSSHError ==
    /\ pc = "ssh_handle"
    /\ IF err \in SSHCaught
       THEN /\ m' = [m EXCEPT !["uptime"] = Cur("null"),
                              !["cpu_temperature"] = Cur("null")]
            /\ collected' = "failed"
            /\ IF ssh_metrics_collector /\ ssh_client # "none"
               THEN /\ pc' = "ssh_fail_disconnect"
                    /\ err' = "none"
                    /\ UNCHANGED <<data, result>>
               ELSE ReturnSnapshot
       ELSE /\ Raise(err)
            /\ UNCHANGED <<m, collected, data, result>>
    /\ UNCHANGED <<idx, depth, f, client, new_client, created,
                   ssh_metrics_collector, ssh_client, ssh_sensors_created,
                   dirty>>
    /\ UNCHANGED <<calls, outcome, unit, signals, unload, hass, service, flow>>

\* Line 237 with line 35 of ssh_metrics.py: the session is disconnected. The
\* cycle timeout may end the await; the session is then released or not.
DisconnectAfterFailure ==
    /\ pc = "ssh_fail_disconnect"
    /\ \/ /\ ssh_client' = "none"
          /\ ReturnSnapshot
          /\ Issue("ssh_disconnect", "ok")
       \/ /\ ssh_client' \in {ssh_client, "none"}
          /\ Raise("Timeout")
          /\ Issue("ssh_disconnect", "cancelled")
          /\ UNCHANGED <<data, result>>
    /\ UNCHANGED <<idx, depth, f, m, client, new_client, created,
                   ssh_metrics_collector, ssh_sensors_created, dirty,
                   collected>>
    /\ UNCHANGED <<unit, signals, unload, hass, service, flow>>

\* EnterSSHClear clearing uptime and cpu_temperature only, as the handler of
\* line 232 does.
EnterSSHClearTwoFields ==
    /\ pc = "ssh_branch"
    /\ f["ssh_state"].v # "enabled"
    /\ m' = [m EXCEPT !["uptime"] = Cur("null"),
                      !["cpu_temperature"] = Cur("null")]
    /\ ssh_sensors_created' = FALSE
    /\ signals' = 0
    /\ collected' = "cleared"
    /\ IF ssh_metrics_collector
       THEN IF ssh_client # "none"
            THEN /\ pc' = "ssh_clear_disconnect"
                 /\ UNCHANGED <<err, data, result, ssh_metrics_collector>>
            ELSE /\ ssh_metrics_collector' = FALSE
                 /\ ReturnSnapshot
       ELSE /\ ReturnSnapshot
            /\ UNCHANGED ssh_metrics_collector
    /\ UNCHANGED <<idx, depth, f, client, new_client, created, ssh_client,
                   dirty>>
    /\ UNCHANGED <<calls, outcome, unit, unload, hass, service, flow>>

\* Lines 143-144 and 239-250: the channel is disabled; the six metrics and
\* the sensors flag are cleared, and a held collector is disconnected and
\* dropped.
EnterSSHClear ==
    /\ pc = "ssh_branch"
    /\ f["ssh_state"].v # "enabled"
    /\ m' = [k \in Metrics |-> Cur("null")]
    /\ ssh_sensors_created' = FALSE
    /\ signals' = 0
    /\ collected' = "cleared"
    /\ IF ssh_metrics_collector
       THEN IF ssh_client # "none"
            THEN /\ pc' = "ssh_clear_disconnect"
                 /\ UNCHANGED <<err, data, result, ssh_metrics_collector>>
            ELSE /\ ssh_metrics_collector' = FALSE
                 /\ ReturnSnapshot
       ELSE /\ ReturnSnapshot
            /\ UNCHANGED ssh_metrics_collector
    /\ UNCHANGED <<idx, depth, f, client, new_client, created, ssh_client,
                   dirty>>
    /\ UNCHANGED <<calls, outcome, unit, unload, hass, service, flow>>

\* Lines 249-250 with line 35 of ssh_metrics.py.
DisconnectAndDrop ==
    /\ pc = "ssh_clear_disconnect"
    /\ \/ /\ ssh_client' = "none"
          /\ ssh_metrics_collector' = FALSE
          /\ ReturnSnapshot
          /\ Issue("ssh_disconnect", "ok")
       \/ /\ ssh_client' \in {ssh_client, "none"}
          /\ Raise("Timeout")
          /\ Issue("ssh_disconnect", "cancelled")
          /\ UNCHANGED <<data, result, ssh_metrics_collector>>
    /\ UNCHANGED <<idx, depth, f, m, client, new_client, created,
                   ssh_sensors_created, dirty, collected>>
    /\ UNCHANGED <<unit, signals, unload, hass, service, flow>>

\* The transport of a held session goes down between two cycles.
SSHTransportDrop ==
    /\ pc = "idle"
    /\ ssh_client = "live"
    /\ ssh_client' = "dead"
    /\ UNCHANGED <<pc, idx, depth, err, f, m, client, new_client, created,
                   ssh_metrics_collector, ssh_sensors_created, data, result,
                   dirty, collected>>
    /\ UNCHANGED <<calls, outcome, unit, signals, unload, hass, service, flow>>

\* ---------------------------------------------------------- specification

Next ==
    \/ StartRefresh
    \/ Authenticate
    \/ FetchRequired
    \/ FetchOptional
    \/ EnterCapability
    \/ SkipCapability
    \/ FetchMountedImage
    \/ FetchCdromStatus
    \/ EnterSSHUpdate
    \/ SSHAuthenticate
    \/ SSHCommand
    \/ HandleSSHError
    \/ DisconnectAfterFailure
    \/ EnterSSHClear
    \/ DisconnectAndDrop
    \/ HandleError
    \/ ReauthAuthenticate
    \/ SwapAndRetry
    \/ SSHTransportDrop

Spec ==
    Init /\ [][Next]_vars

\* --------------------------------------- functions of ssh_metrics.py alone

\* The coordinator's variables, which the functions below do not touch.
coordinator ==
    <<pc, idx, depth, err, f, m, client, new_client, created,
      ssh_metrics_collector, ssh_client, ssh_sensors_created, data, result,
      dirty, collected, calls, outcome, signals, unload>>

\* Number of disconnect() calls made in a row.
MaxDisconnects ==
    2

Abs(x) ==
    IF x < 0 THEN -x ELSE x

\* n/d rounded to an integer the way round() does on a float whose value is
\* exactly n/d: to the nearest, a tie to the even neighbour (d > 0).
RoundHalfEven(n, d) ==
    LET q == n \div d
        r == n % d
    IN  IF 2 * r < d THEN q
        ELSE IF 2 * r > d THEN q + 1
        ELSE IF q % 2 = 0 THEN q ELSE q + 1

\* n/d rounded to an integer by round() when n/d is the result of float
\* arithmetic: to the nearest; at a tie the float lies on either side, so
\* both neighbours can come out (d > 0).
RoundFloat(n, d) ==
    LET q == n \div d
        r == n % d
    IN  IF 2 * r < d THEN {q}
        ELSE IF 2 * r > d THEN {q + 1}
        ELSE {q, q + 1}

\* disconnect() with the test of line 34 left out.
DisconnectUnguarded(s) ==
    [ssh_client |-> "none", transport |-> 1]

\* Lines 32-35: disconnect() of the collector on session s. The transport's
\* disconnect is called only when a session is held, and releases it.
Disconnect(s) ==
    IF s # "none"
    THEN [ssh_client |-> "none", transport |-> 1]
    ELSE [ssh_client |-> s, transport |-> 0]

\* _fetch_cpu_temperature with ">=" in the test of line 91.
CpuTemperatureScalingFrom1000(v) ==
    IF v >= 1000 THEN RoundFloat(v, 100) ELSE {10 * v}

\* Lines 90-93: _fetch_cpu_temperature on the integer reading v, in tenths of
\* a degree. v/1000 in tenths is v/100; round(value, 1) of an integer is the
\* integer.
CpuTemperature(v) ==
    IF v > 1000 THEN RoundFloat(v, 100) ELSE {10 * v}

\* Line 75: parts[0].rstrip(":") on the first token of a line of
\* /proc/meminfo.
RStripColon(k) ==
    CASE k = "MemTotal:" -> "MemTotal"
      [] k = "MemAvailable:" -> "MemAvailable"
      [] k = "MemFree:" -> "MemFree"
      [] OTHER -> k

\* Lines 71-75: mem_data. A line is <<first token, int(second token)>>; a
\* later line with the same name replaces an earlier one.
MemData(lines) ==
    LET names == {RStripColon(lines[i][1]) : i \in 1..Len(lines)}
        last(n) == CHOOSE i \in 1..Len(lines) :
                      /\ RStripColon(lines[i][1]) = n
                      /\ \A j \in (i + 1)..Len(lines) :
                            RStripColon(lines[j][1]) # n
    IN  [n \in names |-> lines[last(n)][2]]

\* ToMB with a division by 1000.
ToMBDecimal(kb) ==
    RoundHalfEven(kb * 100, 1000)

\* Lines 79 and 81: round(kb / 1024, 2), in hundredths of a MB. kb / 1024 is
\* exact in a float.
ToMB(kb) ==
    RoundHalfEven(kb * 100, 1024)

\* Lines 77-85: the stats _fetch_memory returns, total in hundredths of a MB
\* and used_percent in hundredths of a percent; {} is None.
MemoryStats(lines) ==
    LET mem_data == MemData(lines)
    IN  IF "MemTotal" \notin DOMAIN mem_data
        THEN {[total |-> {}, used_percent |-> {}]}
        ELSE LET total == ToMB(mem_data["MemTotal"])
             IN  IF total > 0 /\ "MemAvailable" \in DOMAIN mem_data
                 THEN LET memory_free == ToMB(mem_data["MemAvailable"])
                          memory_used == total - memory_free
                      IN  {[total |-> {total}, used_percent |-> {p}] :
                               p \in RoundFloat(memory_used * 10000, total)}
                 ELSE {[total |-> {total}, used_percent |-> {}]}

\* Readings of the thermal zone: degrees, millidegrees, around the threshold.
TemperatureReadings ==
    {-5, 0, 45, 45050, 45123, 45150, 99999} \cup 995..1005

\* Lines of /proc/meminfo.
MemInfoLines ==
    {<<k, v>> : k \in {"MemTotal:", "MemAvailable:", "MemFree:"},
                v \in {0, 3, 128, 512000, 1024000}}

\* Outputs of "cat /proc/meminfo": up to two lines.
MemInfos ==
    {<<>>} \cup {<<l>> : l \in MemInfoLines}
           \cup {<<l1, l2>> : l1 \in MemInfoLines, l2 \in MemInfoLines}

\* A whitespace-separated token of a command's output: an integer literal,
\* an integer followed by "%", or any other word.
IntTok(n) ==
    [kind |-> "int", w |-> "", n |-> n]

PctTok(n) ==
    [kind |-> "pct", w |-> "%", n |-> n]

WordTok(w) ==
    [kind |-> "word", w |-> w, n |-> 0]

\* int(token) and float(token.rstrip("%")) raise ValueError on a token that
\* is no number (lines 66, 103, 104).
IsInt(tok) ==
    tok.kind = "int"

IsFloatAfterRStrip(tok) ==
    tok.kind \in {"int", "pct"}

\* _fetch_storage reading the total from the "Used" column.
StorageStatsFromUsedColumn(lines) ==
    IF Len(lines) >= 2 /\ Len(lines[2]) >= 5
    THEN LET parts == lines[2]
         IN  IF IsInt(parts[3]) /\ IsFloatAfterRStrip(parts[5])
             THEN [error |-> FALSE, total |-> {ToMB(parts[3].n)},
                   used_percent |-> {parts[5].n}]
             ELSE [error |-> TRUE, total |-> {}, used_percent |-> {}]
    ELSE [error |-> FALSE, total |-> {}, used_percent |-> {}]

\* Lines 98-105: _fetch_storage on the lines of "df -k /", each a sequence of
\* tokens. lines[1] and parts[1], parts[4] of the code are lines[2] and
\* parts[2], parts[5] here. total is in hundredths of a MB, used_percent in
\* percent; {} is None; error is a ValueError of int() or float().
StorageStats(lines) ==
    IF Len(lines) >= 2 /\ Len(lines[2]) >= 5
    THEN LET parts == lines[2]
         IN  IF IsInt(parts[2]) /\ IsFloatAfterRStrip(parts[5])
             THEN [error |-> FALSE, total |-> {ToMB(parts[2].n)},
                   used_percent |-> {parts[5].n}]
             ELSE [error |-> TRUE, total |-> {}, used_percent |-> {}]
    ELSE [error |-> FALSE, total |-> {}, used_percent |-> {}]

\* Line 66: dt_util.utc_from_timestamp(int(token)).
UtcFromTimestamp(n) ==
    [epoch |-> n, tz |-> "UTC"]

\* Lines 63-67: _fetch_uptime on the lines of /proc/stat: the first line of
\* exactly two tokens whose first token is btime.
Uptime(lines) ==
    LET hits == {i \in 1..Len(lines) :
                    Len(lines[i]) = 2 /\ lines[i][1] = WordTok("btime")}
    IN  IF hits = {}
        THEN [error |-> FALSE, value |-> {}]
        ELSE LET i == CHOOSE i \in hits : \A j \in hits : i <= j
             IN  IF IsInt(lines[i][2])
                 THEN [error |-> FALSE,
                       value |-> {UtcFromTimestamp(lines[i][2].n)}]
                 ELSE [error |-> TRUE, value |-> {}]

\* Data lines of "df -k /": the usual six columns, and lines cut short.
DfDataLines ==
    LET full(t, p) == <<WordTok("/dev/root"), t, IntTok(524288),
                        IntTok(524288), p, WordTok("/")>>
        fulls == {full(t, p) :
                     t \in {IntTok(0), IntTok(128), IntTok(1048576),
                            WordTok("-")},
                     p \in {PctTok(50), IntTok(7), WordTok("-")}}
    IN  fulls \cup {SubSeq(l, 1, n) : l \in fulls, n \in {0, 4, 5}}

\* Outputs of "df -k /": nothing, one line, the header with one or two data
\* lines.
DfReports ==
    LET header == <<WordTok("Filesystem"), WordTok("1K-blocks"),
                    WordTok("Used"), WordTok("Available"), WordTok("Use%"),
                    WordTok("Mounted")>>
    IN  {<<>>, <<header>>}
        \cup {<<l>> : l \in DfDataLines}
        \cup {<<header, l>> : l \in DfDataLines}
        \cup {<<header, l, <<WordTok("tmpfs")>>>> : l \in DfDataLines}

\* Lines of /proc/stat.
StatLines ==
    {<<>>,
     <<WordTok("cpu"), IntTok(10), IntTok(20)>>,
     <<WordTok("ctxt"), IntTok(1700000000)>>,
     <<WordTok("btime")>>,
     <<WordTok("btime"), IntTok(1700000000)>>,
     <<WordTok("btime"), IntTok(1600000000)>>,
     <<WordTok("btime"), WordTok("soon")>>,
     <<WordTok("btime"), IntTok(1700000000), WordTok("UTC")>>,
     <<IntTok(5), WordTok("btime")>>}

\* Outputs of "cat /proc/stat": up to two lines.
Stats ==
    {<<>>} \cup {<<l>> : l \in StatLines}
           \cup {<<l1, l2>> : l1 \in StatLines, l2 \in StatLines}

\* A function with its argument, not yet applied. For disconnect() the
\* argument is the session held before the first call, and out holds the
\* session and the transport calls of each call made so far.
UnitInputs ==
    {[fn |-> "disconnect", arg |-> s,
      out |-> {[ssh_client |-> s, transport |-> <<>>]}] :
         s \in {"none", "live", "dead"}}
    \cup {[fn |-> "cpu_temperature", arg |-> v, out |-> {}] :
             v \in TemperatureReadings}
    \cup {[fn |-> "memory", arg |-> t, out |-> {}] : t \in MemInfos}
    \cup {[fn |-> "storage", arg |-> t, out |-> {}] : t \in DfReports}
    \cup {[fn |-> "uptime", arg |-> t, out |-> {}] : t \in Stats}

UnitInit ==
    /\ Setup
    /\ unit \in UnitInputs
    /\ hass = NoHass
    /\ service = NoCall
    /\ flow = NoFlow

\* disconnect() is called, and returns.
CallDisconnect ==
    /\ unit.fn = "disconnect"
    /\ \E held \in unit.out :
        /\ Len(held.transport) < MaxDisconnects
        /\ LET r == Disconnect(held.ssh_client)
           IN  unit' = [unit EXCEPT !.out =
                          {[ssh_client |-> r.ssh_client,
                            transport |-> Append(held.transport, r.transport)]}]
    /\ UNCHANGED <<coordinator, hass, service, flow>>

\* _fetch_cpu_temperature parses the command's output.
ParseCpuTemperature ==
    /\ unit.fn = "cpu_temperature"
    /\ unit.out = {}
    /\ \E t \in CpuTemperature(unit.arg) : unit' = [unit EXCEPT !.out = {t}]
    /\ UNCHANGED <<coordinator, hass, service, flow>>

\* _fetch_memory parses the command's output.
ParseMemory ==
    /\ unit.fn = "memory"
    /\ unit.out = {}
    /\ \E stats \in MemoryStats(unit.arg) : unit' = [unit EXCEPT !.out = {stats}]
    /\ UNCHANGED <<coordinator, hass, service, flow>>

\* _fetch_storage parses the command's output.
ParseStorage ==
    /\ unit.fn = "storage"
    /\ unit.out = {}
    /\ unit' = [unit EXCEPT !.out = {StorageStats(unit.arg)}]
    /\ UNCHANGED <<coordinator, hass, service, flow>>

\* _fetch_uptime parses the command's output.
ParseUptime ==
    /\ unit.fn = "uptime"
    /\ unit.out = {}
    /\ unit' = [unit EXCEPT !.out = {Uptime(unit.arg)}]
    /\ UNCHANGED <<coordinator, hass, service, flow>>

UnitNext ==
    \/ CallDisconnect
    \/ ParseCpuTemperature
    \/ ParseMemory
    \/ ParseStorage
    \/ ParseUptime

UnitSpec ==
    UnitInit /\ [][UnitNext]_vars

\* ------------------------------------------------------------------ claims

\* The dict returned at lines 146-164.
Snapshot ==
    [k \in SnapshotKeys |-> f[k]]

MetricsNull ==
    \A k \in Metrics : m[k].v = "null"

\* C1: a snapshot returned by a refresh has 17 fields, each assigned in the
\* pass that returned it, and is the published one; while a refresh runs and
\* after one that fails, the published snapshot is the one published before it.
C1_SnapshotFromOnePass ==
    /\ Cardinality(DOMAIN Snapshot) = 17
    /\ (pc = "idle" /\ result = "snapshot") =>
          /\ \A k \in DOMAIN Snapshot : Snapshot[k].st = "cur"
          /\ data = Cur("snapshot")
    /\ result # "snapshot" => data.st = "old"

\* A retry pass, run after a pass that had assigned fields, returned a snapshot.
C1_Witness ==
    /\ pc = "idle"
    /\ result = "snapshot"
    /\ depth = 2
    /\ dirty

\* C2: after a refresh that ends in UpdateFailed every device-state field has
\* the value it had when the refresh started.
C2_FailedRefreshKeepsFields ==
    (pc = "idle" /\ result = "UpdateFailed") => ~dirty

\* C3: a refresh creates at most one new session and runs the cycle at most
\* twice.
C3_SingleRetry ==
    /\ created <= 1
    /\ depth <= 2

\* C4: a pass that fails with an error other than an authentication failure or
\* a 401 response, or while the identity held is the placeholder, ends the
\* refresh with UpdateFailed at once: no session is created, the slot keeps
\* its session and the cycle is not run again.
C4_NoReauthOtherwise ==
    [][(/\ pc = "handle"
        /\ \/ err \notin {"AuthFailure", "Resp401"}
           \/ f["device_info"].v = "Unknown")
       => /\ pc' = "idle"
          /\ result' = "UpdateFailed"
          /\ client' = client
          /\ created' = created
          /\ depth' = depth]_vars

\* A first pass got a 401 response while the identity was the placeholder, and
\* the refresh ended without a new session.
C4_Witness ==
    /\ pc = "idle"
    /\ result = "UpdateFailed"
    /\ err = "Resp401"
    /\ f["device_info"].v = "Unknown"
    /\ created = 0
    /\ depth = 1

\* C5: a refresh ends by returning a snapshot or by raising UpdateFailed; no
\* other error leaves it.
C5_OnlyUpdateFailed ==
    /\ result \in {"none", "running", "snapshot", "UpdateFailed"}
    /\ pc = "idle" => result # "running"

\* A refresh whose first pass was rejected and whose retry pass timed out.
C5_Witness ==
    /\ pc = "idle"
    /\ result = "UpdateFailed"
    /\ err \in TimeoutError
    /\ depth = 2

\* C6: the slot holds a session made by the running refresh only once that
\* session has its token; while the new session authenticates the slot holds
\* the previous one, and when that authentication fails the refresh ends with
\* UpdateFailed and the slot still holds the previous session.
C6_SlotSwappedAfterAuth ==
    /\ client.id # 0 => client.token
    /\ pc = "reauth" => client.id < new_client.id
    /\ (pc = "idle" /\ new_client # NoSession /\ ~new_client.token) =>
          /\ result = "UpdateFailed"
          /\ client.id < new_client.id

\* The authentication of the new session failed.
C6_Witness ==
    /\ pc = "idle"
    /\ result = "UpdateFailed"
    /\ new_client = [id |-> 1, token |-> FALSE]
    /\ client.id = 0

\* C7: after a cycle that publishes a snapshot whose channel-state is disabled,
\* the six metrics are null, no session is held and the collector slot is
\* empty.
C7_DisabledClearsAll ==
    (pc = "idle" /\ result = "snapshot" /\ f["ssh_state"].v = "disabled") =>
        /\ \A k \in Metrics : m[k] = Cur("null")
        /\ ssh_client = "none"
        /\ ~ssh_metrics_collector

\* A cycle with the channel disabled published its snapshot.
C7_Witness ==
    /\ pc = "idle"
    /\ result = "snapshot"
    /\ f["ssh_state"].v = "disabled"
    /\ collected = "cleared"
    /\ data = Cur("snapshot")

\* C8: between cycles, a disabled channel-state held by the coordinator means
\* null metrics, no session and no collector.
C8_DisabledMeansCleared ==
    (pc = "idle" /\ f["ssh_state"].v = "disabled") =>
        /\ MetricsNull
        /\ ssh_client = "none"
        /\ ~ssh_metrics_collector

MetricsOf(c) ==
    CASE c = "uptime" -> {"uptime"}
      [] c = "cpu_temperature" -> {"cpu_temperature"}
      [] c = "memory" -> {"memory_total", "memory_used_percent"}
      [] c = "storage" -> {"storage_total", "storage_used_percent"}

\* The commands the running pass has run, by their index in Commands; they
\* are run in order, so the last one run is Commands[Cardinality(CommandsRun)].
CommandsRun ==
    {i \in 1..Len(Commands) : Commands[i] \in Range(calls)}

\* C11: when the command or the parsing of one of the four metrics fails, the
\* fields of the other three are still reported, with values read in that
\* collection.
C11_MetricsIndependent ==
    (pc = "idle" /\ result = "snapshot" /\ collected = "failed"
                 /\ CommandsRun # {}) =>
        \A i \in 1..Len(Commands) :
            i # Cardinality(CommandsRun) =>
                \A k \in MetricsOf(Commands[i]) : m[k] = Cur("val")

\* The endpoints fetched only in hid mode "normal" (lines 122-136).
Gated ==
    {"mounted_image", "cdrom_status"}

\* The call the running pass made last.
LastCall ==
    calls[Len(calls)]

\* The pass went on after its last call: it is neither in the except clauses
\* nor ended by an error.
GoesOn ==
    /\ pc \notin {"handle", "reauth"}
    /\ pc = "idle" => result = "snapshot"

\* C12: whatever communication error an optional or a capability-gated
\* endpoint raises, its field gets the default and the pass goes on.
C12_AnyErrorDefaulted ==
    (/\ calls # <<>>
     /\ LastCall \in Optional \cup Gated
     /\ outcome \in {"ApiError", "Resp401", "RespOther", "Transport", "Timeout"})
        => /\ f[LastCall] = Cur(IF LastCall \in Optional THEN "null" ELSE "empty")
           /\ GoesOn

\* Index of endpoint k in Order.
IndexOf(k) ==
    CHOOSE i \in 1..Len(Order) : Order[i] = k

\* C13: when an optional endpoint fails with an ApiError or a response error
\* of any status, its field is null, the pass is not in the except clauses
\* and goes on with the endpoint after it; the field stays null until the
\* pass has ended, so it is null in the snapshot the pass returns.
C13_OptionalFailureContained ==
    /\ [](\A k \in Optional :
            (/\ calls # <<>>
             /\ LastCall = k
             /\ outcome \in {"ApiError", "Resp401", "RespOther"})
                => /\ f[k] = Cur("null")
                   /\ GoesOn
                   /\ created = 0 \/ depth > 1
                   /\ IF IndexOf(k) < Len(Order)
                      THEN pc = "fetch" /\ idx = IndexOf(k) + 1
                      ELSE pc # "fetch")
    /\ [][\A k \in Optional :
            (f[k] = Cur("null") /\ calls' # <<>>) => f'[k] = Cur("null")]_vars

\* The last optional endpoint answered 401 in a first pass, and the refresh
\* returned its snapshot without creating a session.
C13_Witness ==
    /\ pc = "idle"
    /\ result = "snapshot"
    /\ LastCall = "tailscale_status"
    /\ outcome = "Resp401"
    /\ f["tailscale_status"] = Cur("null")
    /\ created = 0

\* C14: in hid mode "normal" each capability-gated endpoint is fetched; an
\* ApiError of mounted-image gives it the empty sentinel and cdrom-status is
\* fetched next; an ApiError of cdrom-status gives it the empty sentinel and
\* the pass goes on; a published snapshot has both fields non-null.
C14_GatedFetchedIndependently ==
    /\ (calls # <<>> /\ LastCall = "mounted_image"
                     /\ outcome \in {"ok", "ApiError"})
          => /\ f["mounted_image"] =
                    Cur(IF outcome = "ok" THEN "val" ELSE "empty")
             /\ pc = "cdrom_status"
    /\ (calls # <<>> /\ LastCall = "cdrom_status"
                     /\ outcome \in {"ok", "ApiError"})
          => /\ f["cdrom_status"] =
                    Cur(IF outcome = "ok" THEN "val" ELSE "empty")
             /\ "mounted_image" \in Range(calls)
             /\ GoesOn
    /\ (pc = "idle" /\ result = "snapshot") =>
          /\ f["mounted_image"].v # "null"
          /\ f["cdrom_status"].v # "null"
          /\ f["hid_mode"].v = "normal" => Gated \subseteq Range(calls)

\* Both capability-gated endpoints failed with an ApiError and the snapshot
\* was published with the two sentinels.
C14_Witness ==
    /\ pc = "idle"
    /\ result = "snapshot"
    /\ f["hid_mode"] = Cur("normal")
    /\ f["mounted_image"] = Cur("empty")
    /\ f["cdrom_status"] = Cur("empty")

\* C15: in a pass whose hid mode is not "normal" neither capability-gated
\* call is made, and the snapshot it returns has the empty sentinel in both
\* fields.
C15_GatedSkipped ==
    f["hid_mode"] = Cur("hid_only") =>
        /\ Gated \cap Range(calls) = {}
        /\ (pc = "idle" /\ result = "snapshot") =>
              /\ f["mounted_image"] = Cur("empty")
              /\ f["cdrom_status"] = Cur("empty")

\* A pass in hid mode "hid_only" fetched every endpoint of Order, made
\* neither capability-gated call and published its snapshot.
C15_Witness ==
    /\ pc = "idle"
    /\ result = "snapshot"
    /\ f["hid_mode"] = Cur("hid_only")
    /\ f["mounted_image"] = Cur("empty")
    /\ f["cdrom_status"] = Cur("empty")
    /\ Gated \cap Range(calls) = {}
    /\ "tailscale_status" \in Range(calls)

\* C16: collect() authenticates the command channel exactly when it holds no
\* live session, once and before the first command; the commands run on a
\* live session, which they leave in place.
C16_AuthenticateWhenNeeded ==
    /\ [](/\ pc = "ssh_auth" =>
                /\ ssh_client # "live"
                /\ Range(calls) \cap ({"ssh_authenticate"} \cup Range(Commands)) = {}
          /\ pc = "ssh_cmd" => ssh_client = "live"
          /\ \A i, j \in 1..Len(calls) :
                (/\ calls[i] = "ssh_authenticate"
                 /\ calls[j] \in {"ssh_authenticate"} \cup Range(Commands)
                 /\ i # j) => i < j)
    /\ [][(pc = "ssh_branch" /\ pc' \in {"ssh_auth", "ssh_cmd"}) =>
            /\ pc' = "ssh_auth" <=> ssh_client \in {"none", "dead"}
            /\ ssh_client' = ssh_client
            /\ calls' = calls]_vars
    /\ [][pc = "ssh_cmd" => ssh_client' = ssh_client]_vars

\* collect() runs its second command on the session of an earlier cycle,
\* without having authenticated.
C16_Witness ==
    /\ pc = "ssh_cmd"
    /\ idx = 2
    /\ "uptime" \in Range(calls)
    /\ "ssh_authenticate" \notin Range(calls)

\* A pass starts: the scheduler's call, or the nested call of line 183.
PassStarts ==
    /\ pc \in {"idle", "swap"}
    /\ pc' \in {"auth", "fetch"}

\* C17: a pass calls authenticate exactly when it starts with a session that
\* has no token; the call is the first of the pass and the only one.
C17_AuthenticateIffNoToken ==
    /\ [][PassStarts => /\ pc' = "auth" <=> ~client'.token
                        /\ calls' = <<>>]_vars
    /\ [][pc' = "auth" => PassStarts]_vars
    /\ [](/\ pc = "auth" => calls = <<>>
          /\ \A i \in 1..Len(calls) : calls[i] = "authenticate" => i = 1
          /\ (pc = "fetch" /\ idx = 1) => calls \in {<<>>, <<"authenticate">>})

\* A pass that started without a token authenticated and then fetched its
\* first endpoint.
C17_Witness ==
    /\ pc = "fetch"
    /\ idx = 2
    /\ calls = <<"authenticate", "device_info">>
    /\ client.token

\* C18: disconnect() with no session held makes no transport call and leaves
\* no session held; after any disconnect() no session is held, so a second
\* call in a row makes no transport call and changes nothing.
C18_DisconnectIdempotent ==
    unit.fn = "disconnect" =>
        \A held \in unit.out :
            LET n == Len(held.transport)
            IN  /\ n >= 1 => held.ssh_client = "none"
                /\ (n >= 1 /\ unit.arg = "none") => held.transport[1] = 0
                /\ (n >= 1 /\ unit.arg # "none") => held.transport[1] = 1
                /\ \A i \in 2..n : held.transport[i] = 0

\* disconnect() was called twice in a row on a live session.
C18_Witness ==
    /\ unit.fn = "disconnect"
    /\ unit.arg = "live"
    /\ unit.out = {[ssh_client |-> "none", transport |-> <<1, 0>>]}

\* C19: the temperature of a reading v above 1000 is v/1000 to one decimal,
\* that of any other reading is v itself; 45123 gives 45.1, 45 gives 45.0 and
\* 1000 gives 1000.0.
C19_TemperatureNormalized ==
    unit.fn = "cpu_temperature" =>
        \A t \in unit.out :
            LET v == unit.arg
            IN  /\ v > 1000 => Abs(100 * t - v) <= 50
                /\ v <= 1000 => t = 10 * v
                /\ v = 45123 => t = 451
                /\ v = 45 => t = 450
                /\ v = 1000 => t = 10000

\* The reading 1000 was parsed and was not scaled.
C19_Witness ==
    /\ unit.fn = "cpu_temperature"
    /\ unit.arg = 1000
    /\ unit.out = {10000}

\* x is n/d to the nearest integer (d > 0).
Nearest(x, n, d) ==
    2 * Abs(x * d - n) <= d

\* C20: total is MemTotal/1024 to two decimals and null without MemTotal;
\* used_percent is (total - available)/total*100 to two decimals, on the
\* two-decimal MB values, when MemAvailable is there and total is above 0,
\* and null otherwise; 1024000 kB with 512000 kB available give 1000.0 and
\* 50.0, and a MemTotal of 0 gives a null used_percent.
C20_MemoryStats ==
    unit.fn = "memory" =>
        \A stats \in unit.out :
            LET d == MemData(unit.arg)
                hasTotal == "MemTotal" \in DOMAIN d
                hasAvailable == "MemAvailable" \in DOMAIN d
            IN  /\ ~hasTotal => stats.total = {} /\ stats.used_percent = {}
                /\ hasTotal =>
                      /\ Cardinality(stats.total) = 1
                      /\ \A t \in stats.total :
                            /\ Nearest(t, d["MemTotal"] * 100, 1024)
                            /\ IF hasAvailable /\ t > 0
                               THEN \E a \in 0..((d["MemAvailable"] * 100) \div 1024 + 1) :
                                       /\ Nearest(a, d["MemAvailable"] * 100, 1024)
                                       /\ Cardinality(stats.used_percent) = 1
                                       /\ \A p \in stats.used_percent :
                                             Nearest(p, (t - a) * 10000, t)
                               ELSE stats.used_percent = {}
                /\ (hasTotal /\ hasAvailable /\ d["MemTotal"] = 1024000
                             /\ d["MemAvailable"] = 512000)
                      => stats = [total |-> {100000}, used_percent |-> {5000}]
                /\ (hasTotal /\ d["MemTotal"] = 0)
                      => stats = [total |-> {0}, used_percent |-> {}]

\* Both lines were parsed and gave a total and a used_percent that is neither
\* 0 nor 100.
C20_Witness ==
    /\ unit.fn = "memory"
    /\ unit.arg = <<<<"MemTotal:", 1024000>>, <<"MemAvailable:", 512000>>>>
    /\ unit.out = {[total |-> {100000}, used_percent |-> {5000}]}

\* C21: a report with a second line of at least five fields, of which the
\* second is an integer and the fifth a number with or without "%", gives
\* total = second field / 1024 to two decimals and used_percent = fifth field
\* without its "%"; a report of fewer than two lines, or whose second line
\* has fewer than five fields, gives null for both and raises nothing.
C21_StorageStats ==
    unit.fn = "storage" =>
        \A stats \in unit.out :
            LET lines == unit.arg
            IN  IF Len(lines) < 2 \/ Len(lines[2]) < 5
                THEN stats = [error |-> FALSE, total |-> {},
                              used_percent |-> {}]
                ELSE (lines[2][2].kind = "int"
                        /\ lines[2][5].kind \in {"int", "pct"}) =>
                          /\ ~stats.error
                          /\ Cardinality(stats.total) = 1
                          /\ \A t \in stats.total :
                                Nearest(t, lines[2][2].n * 100, 1024)
                          /\ stats.used_percent = {lines[2][5].n}

\* The header and the line "/dev/root 1048576 524288 524288 50% /" were
\* parsed: 1024.0 MB, 50 percent.
C21_Witness ==
    /\ unit.fn = "storage"
    /\ Len(unit.arg) = 2
    /\ unit.arg[2] = <<WordTok("/dev/root"), IntTok(1048576), IntTok(524288),
                       IntTok(524288), PctTok(50), WordTok("/")>>
    /\ unit.out = {[error |-> FALSE, total |-> {102400},
                    used_percent |-> {50}]}

\* C22: the uptime is the UTC timestamp of the second token of the first
\* line whose first token is btime, whatever else the line holds, and null
\* when no line starts with btime.
C22_UptimeFromFirstBtimeLine ==
    unit.fn = "uptime" =>
        \A r \in unit.out :
            LET lines == unit.arg
                btime == {i \in 1..Len(lines) :
                             Len(lines[i]) >= 1 /\ lines[i][1].w = "btime"}
                first == CHOOSE i \in btime : \A j \in btime : i <= j
            IN  IF btime = {}
                THEN r = [error |-> FALSE, value |-> {}]
                ELSE (Len(lines[first]) >= 2 /\ lines[first][2].kind = "int")
                        => r = [error |-> FALSE,
                                value |-> {[epoch |-> lines[first][2].n,
                                            tz |-> "UTC"]}]

\* ------------------------------------------------- the cycle timeout's scope

\* Lines 95-164: the steps of a pass that run inside
\* async_timeout.timeout(10). A call among them that does not return is ended
\* by the timeout, and the steps between two calls do not suspend, so each of
\* these steps is eventually taken.
InTimeoutScope ==
    \/ Authenticate
    \/ FetchRequired
    \/ FetchOptional
    \/ EnterCapability
    \/ SkipCapability
    \/ FetchMountedImage
    \/ FetchCdromStatus
    \/ EnterSSHUpdate
    \/ SSHAuthenticate
    \/ SSHCommand
    \/ HandleSSHError
    \/ DisconnectAfterFailure
    \/ EnterSSHClear
    \/ DisconnectAndDrop

\* Lines 165-196: the steps of the handlers that do not suspend.
HandlerSteps ==
    \/ HandleError
    \/ SwapAndRetry

\* A refresh under the guarantees the code has: the timeout ends every call in
\* its scope and straight-line code runs on. Nothing is assumed of the call at
\* lines 180-181, which no timeout covers, nor of when a refresh starts.
LiveSpec ==
    Spec /\ WF_vars(InTimeoutScope) /\ WF_vars(HandlerSteps)

\* C23: every suspension point of a refresh lies in the scope of the cycle
\* timeout, the authentication of the replacement session included: a refresh
\* that has started ends, whichever call fails to return.
C23_RefreshEnds ==
    (pc # "idle") ~> (pc = "idle")

\* ------------------------------------------------------ the order of calls

IsPrefix(s, t) ==
    Len(s) <= Len(t) /\ SubSeq(t, 1, Len(s)) = s

\* C24: within a pass the calls are issued one at a time in a fixed order:
\* authenticate if needed, the fifteen endpoints, the capability branch, the
\* command-channel branch; every step issues at most one call; and after a
\* required call (or authenticate) has failed, the pass issues no further
\* call: the only call that can follow is the handler's authentication of the
\* replacement session, which starts the next pass.
C24_FixedOrder ==
    /\ [](LET endpoints ==
                 <<"device_info", "hostname_info", "hardware_info",
                   "gpio_info", "virtual_device_info", "ssh_state",
                   "mdns_state", "hid_mode", "oled_info", "wifi_status",
                   "application_version_info", "hdmi_state",
                   "mouse_jiggler_state", "swap_size", "tailscale_status">>
               commands == <<"uptime", "cpu_temperature", "memory", "storage">>
               branches ==
                 {a \o SubSeq(commands, 1, n) \o d :
                    a \in {<<>>, <<"ssh_authenticate">>},
                    n \in 0..4,
                    d \in {<<>>, <<"ssh_disconnect">>}}
               orders ==
                 {a \o endpoints \o g \o b :
                    a \in {<<>>, <<"authenticate">>},
                    g \in {<<>>, <<"mounted_image", "cdrom_status">>},
                    b \in branches}
               inPass == SelectSeq(calls, LAMBDA c : c # "authenticate_new")
           IN  \E o \in orders : IsPrefix(inPass, o))
    /\ [][\/ calls' = calls
          \/ calls' = <<>>
          \/ Len(calls') = Len(calls) + 1 /\ IsPrefix(calls, calls')]_vars
    /\ [][(/\ calls # <<>>
           /\ LastCall \in (Range(Order) \ Optional) \cup {"authenticate"}
           /\ outcome # "ok"
           /\ calls' # calls)
          => calls' \in {<<>>, Append(calls, "authenticate_new")}]_vars

\* A pass that issued every call of the order and published its snapshot.
C24_Witness ==
    /\ pc = "idle"
    /\ result = "snapshot"
    /\ calls = <<"authenticate">> \o Order
               \o <<"mounted_image", "cdrom_status", "ssh_authenticate">>
               \o Commands

\* ------------------------------------- the channel follows the state flag

\* C25: the collector is created, and the command-channel authenticate and
\* commands are issued, only in a pass that has fetched the channel state as
\* enabled (so never before the first cycle that reports it enabled, and in
\* no cycle that reports it disabled); and after a published cycle a session
\* is held only if that cycle fetched the channel state as enabled.
C25_ChannelFollowsFlag ==
    /\ [][(\/ ~ssh_metrics_collector /\ ssh_metrics_collector'
           \/ \E c \in {"ssh_authenticate"} \cup Range(Commands) :
                calls' = Append(calls, c))
          => f["ssh_state"] = Cur("enabled")]_vars
    /\ []((pc = "idle" /\ result = "snapshot" /\ ssh_client # "none")
          => f["ssh_state"] = Cur("enabled"))

\* A published cycle that found the channel disabled and tore down the
\* session an earlier cycle had opened.
C25_Witness ==
    /\ pc = "idle"
    /\ result = "snapshot"
    /\ f["ssh_state"] = Cur("disabled")
    /\ calls # <<>>
    /\ LastCall = "ssh_disconnect"
    /\ ssh_client = "none"
    /\ ~ssh_metrics_collector

\* --------------------------------------------- a failed session is not reused

\* C28: after a cycle in which the collection failed, no session is left that
\* the next collect() would use without authenticating again (collect()
\* authenticates exactly when the session is not live); and a collection that
\* succeeded has stored all six metrics from its own cycle.
C28_FailedSessionNotReused ==
    /\ (pc = "idle" /\ collected = "failed") => ~(ssh_client = "live")
    /\ (pc = "idle" /\ collected = "stored")
       => \A k \in Metrics : m[k] = Cur("val")

\* ------------------------------------------------- the new-sensors signal

\* C29: between two resets of the sensors flag the signal is sent at most
\* once, and it has been sent as soon as a collection of that period has
\* succeeded; it is sent only by the step that completes a successful
\* collection, in a pass that fetched the channel state as enabled, so never
\* in a cycle whose collection failed; and the flag is reset, which allows
\* the next signal, only in a pass that fetched the channel state as
\* disabled.
C29_SignalOncePerPeriod ==
    /\ [](signals <= 1)
    /\ [](ssh_sensors_created <=> signals = 1)
    /\ [](collected = "stored" => signals = 1)
    /\ [][signals' > signals
          => /\ signals' = signals + 1
             /\ pc = "ssh_cmd"
             /\ calls' = Append(calls, "storage")
             /\ outcome' = "ok"
             /\ collected' = "stored"
             /\ f["ssh_state"] = Cur("enabled")]_vars
    /\ [][(signals' < signals \/ (ssh_sensors_created /\ ~ssh_sensors_created'))
          => /\ pc = "ssh_branch"
             /\ collected' = "cleared"
             /\ f["ssh_state"] = Cur("disabled")]_vars

\* The cycle that sent the signal: its collection succeeded and it was
\* published.
C29_Witness ==
    /\ pc = "idle"
    /\ result = "snapshot"
    /\ collected = "stored"
    /\ LastCall = "storage"
    /\ outcome = "ok"
    /\ signals = 1
    /\ ssh_sensors_created

\* ------------------------------------------ the entry is unloaded (one entry)

\* Lines 89-95 of __init__.py: the platforms are unloaded and the coordinator
\* is taken out of the registry; when it holds a collector with a session,
\* the flow suspends in disconnect() (line 96, line 35 of ssh_metrics.py),
\* otherwise it returns. The poll cycle is another task: it can be at any
\* position. (An unload whose platforms fail returns at line 91 and changes
\* nothing.)
UnloadPlatforms ==
    /\ unload = "loaded"
    /\ unload' = IF ssh_metrics_collector /\ Disconnect(ssh_client).transport = 1
                 THEN "disconnect"
                 ELSE "unloaded"
    /\ UNCHANGED <<pc, idx, depth, err, f, m, client, new_client, created,
                   ssh_metrics_collector, ssh_client, ssh_sensors_created,
                   data, result, dirty, collected, calls, outcome, unit,
                   signals, hass, service, flow>>

\* Line 96 returns: the session is released, and lines 98-102 run on.
UnloadDisconnect ==
    /\ unload = "disconnect"
    /\ ssh_client' = Disconnect(ssh_client).ssh_client
    /\ unload' = "unloaded"
    /\ UNCHANGED <<pc, idx, depth, err, f, m, client, new_client, created,
                   ssh_metrics_collector, ssh_sensors_created, data, result,
                   dirty, collected, calls, outcome, unit, signals, hass, service, flow>>

\* The poll cycle and the unload of the entry side by side. Unloading the
\* platforms removes the coordinator's listeners, so no refresh starts after
\* it; a refresh that is under way runs on.
UnloadNext ==
    \/ unload = "loaded" /\ StartRefresh
    \/ Authenticate
    \/ FetchRequired
    \/ FetchOptional
    \/ EnterCapability
    \/ SkipCapability
    \/ FetchMountedImage
    \/ FetchCdromStatus
    \/ EnterSSHUpdate
    \/ SSHAuthenticate
    \/ SSHCommand
    \/ HandleSSHError
    \/ DisconnectAfterFailure
    \/ EnterSSHClear
    \/ DisconnectAndDrop
    \/ HandleError
    \/ ReauthAuthenticate
    \/ SwapAndRetry
    \/ SSHTransportDrop
    \/ UnloadPlatforms
    \/ UnloadDisconnect

UnloadSpec ==
    Init /\ [][UnloadNext]_vars

\* The positions of a pass at which it is suspended in a call on the
\* command-channel session: authenticate, a command, or a disconnect.
InSessionCall ==
    pc \in {"ssh_auth", "ssh_cmd", "ssh_fail_disconnect", "ssh_clear_disconnect"}

\* C26: the command-channel session is operated on by one control flow at a
\* time: the unload's disconnect is never in progress while the poll cycle is
\* suspended in a call on the same session.
C26_OneFlowOnSession ==
    ~(unload = "disconnect" /\ InSessionCall)

\* -------------------------------- the registry and the services (all entries)

MaxEntries == 2

\* The config entries of the integration.
Entries ==
    1..MaxEntries

\* _SERVICE_NAMES, lines 35-43 of services.py.
ServiceNames ==
    {"SERVICE_PUSH_BUTTON", "SERVICE_PASTE_TEXT", "SERVICE_REBOOT",
     "SERVICE_RESET_HDMI", "SERVICE_RESET_HID", "SERVICE_WAKE_ON_LAN",
     "SERVICE_SET_MOUSE_JIGGLER"}

\* An entry that is not set up. pc is the position of its setup or unload
\* flow, session tells whether its coordinator's collector holds a session,
\* and domain_data is the dict that the local variable of line 93 refers to
\* while the unload is suspended: "current" for hass.data[DOMAIN], or a dict
\* that has since been popped from hass.data, empty or not.
NoEntry ==
    [pc |-> "none", session |-> FALSE, domain_data |-> "none"]

\* No entry is set up: hass.data has no DOMAIN key and no service exists.
RegistryInit ==
    /\ Setup
    /\ unit = NoUnit
    /\ hass = [entry |-> [e \in Entries |-> NoEntry],
               present |-> FALSE, coordinators |-> {}, services |-> {}]
    /\ service = NoCall
    /\ flow = NoFlow

\* async_register_services, lines 74-77 and 171-188 of services.py.
RegisterServices(s) ==
    IF "SERVICE_PUSH_BUTTON" \in s THEN s ELSE s \cup ServiceNames

\* async_unregister_services, lines 191-195 of services.py.
UnregisterServices(s) ==
    s \ ServiceNames

\* Lines 99-100: the services are removed and DOMAIN is popped from
\* hass.data. An unload suspended at line 96 keeps its reference to the
\* popped dict.
DropDomain(h) ==
    [h EXCEPT !.present = FALSE,
              !.coordinators = {},
              !.services = UnregisterServices(h.services),
              !.entry = [x \in Entries |->
                           IF h.entry[x].domain_data = "current"
                           THEN [h.entry[x] EXCEPT !.domain_data =
                                   IF h.coordinators = {}
                                   THEN "popped_empty"
                                   ELSE "popped_nonempty"]
                           ELSE h.entry[x]]]

\* Lines 98-102 for entry e, whose local dict is empty or not.
UnloadTail(h, e, empty) ==
    [(IF empty THEN DropDomain(h) ELSE h)
        EXCEPT !.entry[e].pc = "none", !.entry[e].domain_data = "none"]

\* Lines 45-76: a new coordinator is made and the flow awaits the
\* authentication, get_info and the first refresh.
SetupStart(e) ==
    /\ hass.entry[e].pc = "none"
    /\ hass' = [hass EXCEPT !.entry[e].pc = "first_refresh",
                            !.entry[e].session = FALSE]
    /\ UNCHANGED <<coordinator, unit, service, flow>>

\* Lines 52-54 and 76-81: the setup fails (authentication failure, or the
\* first refresh raises), or the coordinator is put in the registry, made
\* when missing, and the flow awaits the platforms. The first refresh may
\* have opened a session.
SetupRefreshed(e) ==
    /\ hass.entry[e].pc = "first_refresh"
    /\ \/ hass' = [hass EXCEPT !.entry[e].pc = "none"]
       \/ \E s \in BOOLEAN :
            hass' = [hass EXCEPT !.entry[e].pc = "forward_setups",
                                 !.entry[e].session = s,
                                 !.present = TRUE,
                                 !.coordinators = @ \cup {e}]
    /\ UNCHANGED <<coordinator, unit, service, flow>>

\* Lines 81-84: the platforms are set up and the services registered.
SetupForwarded(e) ==
    /\ hass.entry[e].pc = "forward_setups"
    /\ hass' = [hass EXCEPT !.entry[e].pc = "loaded",
                            !.services = RegisterServices(@)]
    /\ UNCHANGED <<coordinator, unit, service, flow>>

\* A poll cycle of a loaded entry opens or gives up the session.
Poll(e) ==
    /\ hass.entry[e].pc = "loaded"
    /\ hass' = [hass EXCEPT !.entry[e].session = ~@]
    /\ UNCHANGED <<coordinator, unit, service, flow>>

\* Line 89: the unload awaits the platforms.
UnloadStart(e) ==
    /\ hass.entry[e].pc = "loaded"
    /\ hass' = [hass EXCEPT !.entry[e].pc = "unload_platforms"]
    /\ UNCHANGED <<coordinator, unit, service, flow>>

\* Lines 90-96: a failed unload of the platforms returns False. Otherwise the
\* coordinator is popped from hass.data[DOMAIN], or from a fresh {} when
\* DOMAIN is missing; when a coordinator was found and holds a session the
\* flow awaits disconnect(), otherwise lines 98-102 follow at once.
UnloadPlatformsDone(e) ==
    /\ hass.entry[e].pc = "unload_platforms"
    /\ \/ hass' = [hass EXCEPT !.entry[e].pc = "loaded"]
       \/ LET found == hass.present /\ e \in hass.coordinators
              popped == [hass EXCEPT !.coordinators = @ \ {e}]
          IN  hass' = IF found /\ hass.entry[e].session
                      THEN [popped EXCEPT !.entry[e].pc = "disconnect",
                                          !.entry[e].domain_data = "current"]
                      ELSE UnloadTail(popped, e, popped.coordinators = {})
    /\ UNCHANGED <<coordinator, unit, service, flow>>

\* Lines 96-102: disconnect() returns; the tail tests the dict that line 93
\* bound, which may no longer be hass.data[DOMAIN].
UnloadDisconnected(e) ==
    /\ hass.entry[e].pc = "disconnect"
    /\ LET released == [hass EXCEPT !.entry[e].session = FALSE]
           empty == CASE hass.entry[e].domain_data = "current" ->
                             hass.coordinators = {}
                      [] hass.entry[e].domain_data = "popped_empty" -> TRUE
                      [] OTHER -> FALSE
       IN  hass' = UnloadTail(released, e, empty)
    /\ UNCHANGED <<coordinator, unit, service, flow>>

\* Setups and unloads of the entries; flows of different entries interleave
\* at their awaits, one entry has one flow at a time.
RegistryNext ==
    \E e \in Entries :
        \/ SetupStart(e)
        \/ SetupRefreshed(e)
        \/ SetupForwarded(e)
        \/ Poll(e)
        \/ UnloadStart(e)
        \/ UnloadPlatformsDone(e)
        \/ UnloadDisconnected(e)

RegistrySpec ==
    RegistryInit /\ [][RegistryNext]_vars

\* async_unload_entry of entry e returns True in this step.
ReturnsTrue(e) ==
    /\ hass.entry[e].pc \in {"unload_platforms", "disconnect"}
    /\ hass'.entry[e].pc = "none"

\* async_unload_entry of entry e returns False in this step.
ReturnsFalse(e) ==
    /\ hass.entry[e].pc = "unload_platforms"
    /\ hass'.entry[e].pc = "loaded"

\* C27: when async_unload_entry returns True the coordinator is out of the
\* registry and the session it held has been disconnected; when it returns
\* False nothing but the flow's position has changed.
C27_UnloadReleasesChannel ==
    [][\A e \in Entries :
         /\ ReturnsTrue(e)
            => /\ e \notin hass'.coordinators
               /\ ~hass'.entry[e].session
         /\ ReturnsFalse(e)
            => hass' = [hass EXCEPT !.entry[e].pc = "loaded"]]_vars

\* No setup or unload is under way.
Quiescent ==
    \A e \in Entries : hass.entry[e].pc \in {"none", "loaded"}

\* C30: once every operation has completed, the seven services are
\* registered exactly when the registry holds a coordinator; registering
\* when registered changes nothing; an unload that returns while another
\* entry remains loaded keeps the services; and the unload of the last entry
\* removes the services and the registry.
C30_ServicesIffRegistry ==
    /\ [](Quiescent
          => /\ hass.services \in {{}, ServiceNames}
             /\ hass.services = ServiceNames
                <=> (hass.present /\ hass.coordinators # {}))
    /\ [][\A e \in Entries :
            /\ (hass.entry[e].pc = "forward_setups"
                /\ hass'.entry[e].pc = "loaded"
                /\ hass.services = ServiceNames)
               => hass'.services = hass.services
            /\ (ReturnsTrue(e)
                /\ \E x \in Entries \ {e} : hass.entry[x].pc = "loaded")
               => hass'.services = ServiceNames
            /\ (ReturnsTrue(e)
                /\ \A x \in Entries \ {e} : hass.entry[x].pc = "none")
               => hass'.services = {} /\ ~hass'.present]_vars

\* ------------------------------------------------- a service is called

\* Entries the registry dict has room for before it is rebuilt.
MaxSlots == 4

\* The keys a dict holds, from its entries in insertion order; 0 is the
\* place of a key that was popped.
Keys(slots) ==
    Range(slots) \ {0}

\* The registry dicts a service call can find: any entries, inserted in any
\* order.
Registries ==
    {s \in UNION {[1..n -> Entries] : n \in 0..MaxEntries} :
        \A i, j \in 1..Len(s) : i # j => s[i] # s[j]}

\* A service is about to be called. slots is the dict that
\* hass.data.get(DOMAIN, {}) returns, used the size the iterator of line 84
\* noted, pos the entry it stands at, current the device whose handler is
\* awaited, attempted the devices whose handler was started, and logged those
\* whose error was logged.
ServiceInit ==
    /\ Setup
    /\ unit = NoUnit
    /\ hass = NoHass
    /\ flow = NoFlow
    /\ service \in {[pc |-> "idle", slots |-> s, used |-> 0, pos |-> 0,
                     current |-> 0, attempted |-> {}, logged |-> {}] :
                    s \in Registries}

\* Line 84, one turn of the for statement: the iterator raises RuntimeError
\* when the dict's size is not the one it noted, which leaves
\* _execute_service and the service handler; otherwise it moves to the next
\* entry that holds a key, and lines 85-88 start the handler on that device;
\* with no entry left the call returns.
NextDevice(s) ==
    LET later == {i \in (s.pos + 1)..Len(s.slots) : s.slots[i] # 0}
        i == CHOOSE x \in later : \A y \in later : x <= y
    IN  IF Cardinality(Keys(s.slots)) # s.used
        THEN [s EXCEPT !.pc = "raised", !.current = 0]
        ELSE IF later = {}
             THEN [s EXCEPT !.pc = "returned", !.current = 0]
             ELSE [s EXCEPT !.pc = "await",
                            !.pos = i,
                            !.current = s.slots[i],
                            !.attempted = @ \cup {s.slots[i]}]

\* Lines 84-88: the service handler calls _execute_service, which makes the
\* iterator over the registry's values and takes the first device.
CallService ==
    /\ service.pc = "idle"
    /\ service' = NextDevice([service EXCEPT
                                !.used = Cardinality(Keys(service.slots))])
    /\ UNCHANGED <<coordinator, unit, hass, flow>>

\* Lines 86-92: the handler returns or raises; an Exception is logged, and
\* the loop goes on.
HandlerDone ==
    /\ service.pc = "await"
    /\ \E o \in {"ok"} \cup ApiErrors :
         service' = NextDevice([service EXCEPT !.logged =
                                  IF o = "ok" THEN @ ELSE @ \cup {service.current}])
    /\ UNCHANGED <<coordinator, unit, hass, flow>>

\* Line 79 of __init__.py, while a handler is awaited: the setup of another
\* entry puts its coordinator in the registry.
RegistryInsert(e) ==
    /\ service.pc = "await"
    /\ e \notin Keys(service.slots)
    /\ Len(service.slots) < MaxSlots
    /\ service' = [service EXCEPT !.slots = Append(@, e)]
    /\ UNCHANGED <<coordinator, unit, hass, flow>>

\* Line 94 of __init__.py, while a handler is awaited: the unload of an entry
\* pops its coordinator from the registry.
RegistryPop(e) ==
    /\ service.pc = "await"
    /\ e \in Keys(service.slots)
    /\ service' = [service EXCEPT !.slots =
                     [i \in 1..Len(@) |-> IF @[i] = e THEN 0 ELSE @[i]]]
    /\ UNCHANGED <<coordinator, unit, hass, flow>>

ServiceNext ==
    \/ CallService
    \/ HandlerDone
    \/ \E e \in Entries : RegistryInsert(e)
    \/ \E e \in Entries : RegistryPop(e)

ServiceSpec ==
    ServiceInit /\ [][ServiceNext]_vars

\* C31: a service call runs its action on every configured device and no
\* error reaches its caller: the call never ends with an exception, every
\* device whose handler failed has its error logged and the loop went on,
\* and when the call returns, the handler was started on every device the
\* registry holds.
C31_EveryDeviceAttempted ==
    /\ service.pc # "raised"
    /\ service.logged \subseteq service.attempted
    /\ service.pc = "returned" => Keys(service.slots) \subseteq service.attempted

\* --------------------------------------------------------- the config flow

\* Device keys that get_info can report.
MaxKeys == 2

DeviceKeys ==
    1..MaxKeys

\* The keys of the dicts the flow handles; a key a dict does not hold has
\* the value "absent".
Empty ==
    [host |-> "absent", use_static_host |-> "absent",
     username |-> "absent", password |-> "absent"]

\* Line 83, line 154: a | b, the dict with b's items over a's.
Merge(a, b) ==
    [k \in DOMAIN a |-> IF b[k] # "absent" THEN b[k] ELSE a[k]]

\* Lines 81-82.
Defaults ==
    [Empty EXCEPT !.username = "DEFAULT_USERNAME",
                  !.password = "DEFAULT_PASSWORD"]

\* What the user form yields (lines 105-108: the host, and use_static_host
\* with its default filled in), and what async_step_zeroconf passes to
\* async_step_user (lines 227-230: the host alone).
UserInputs ==
    {[Empty EXCEPT !.host = h, !.use_static_host = s] :
        h \in {"kvm-a", "kvm-b"}, s \in {"True", "False"}}

ZeroconfInputs ==
    {[Empty EXCEPT !.host = h] : h \in {"kvm-a", "kvm-b"}}

\* What the auth form yields (lines 146-151).
AuthInputs ==
    {[Empty EXCEPT !.username = u, !.password = p] :
        u \in {"DEFAULT_USERNAME", "root"}, p \in {"DEFAULT_PASSWORD", "secret"}}

\* Lines 25-38: validate_input, from how authenticate and get_info end.
\* raised is the exception that leaves it ("none" when it returns), key
\* the device key it returns.
ValidateInput(o, k) ==
    CASE o = "ok" -> [raised |-> "none", key |-> {k}]
      [] o \in NanoKVMAuthenticationFailure -> [raised |-> "InvalidAuth", key |-> {}]
      [] o \in ApiErrors -> [raised |-> "CannotConnect", key |-> {}]
      [] OTHER -> [raised |-> "Unexpected", key |-> {}]

\* How a validation can end: the errors of the API calls, and any other
\* exception.
Validations ==
    {ValidateInput(o, k) : o \in {"ok", "Other"} \cup ApiErrors, k \in DeviceKeys}

\* Lines 56-57: a missing use_static_host is stored as False.
WithStaticHost(d) ==
    [d EXCEPT !.use_static_host = IF @ = "absent" THEN "False" ELSE @]

\* add_device storing the flow's self.data.
AddDeviceStoringSelfData(fl, device_key, d) ==
    IF device_key \in fl.configured
    THEN [fl EXCEPT !.step = "aborted"]
    ELSE [fl EXCEPT !.step = "created",
                    !.entry = {[unique_id |-> device_key,
                                data |-> WithStaticHost(fl.data)]}]

\* Lines 46-71: add_device. The flow aborts when the device key is the
\* unique id of a configured entry; otherwise the entry is created with the
\* data passed in.
AddDevice(fl, device_key, d) ==
    IF device_key \in fl.configured
    THEN [fl EXCEPT !.step = "aborted"]
    ELSE [fl EXCEPT !.step = "created",
                    !.entry = {[unique_id |-> device_key,
                                data |-> WithStaticHost(d)]}]

\* A step is invoked with input d and validate_input ends as r: what the
\* step's invocation records before it acts on r.
Invoked(fl, name, d, r) ==
    [fl EXCEPT !.invoked = name,
               !.raised = r.raised,
               !.validated = IF r.raised = "none"
                             THEN {[data |-> d, key |-> k] : k \in r.key}
                             ELSE {},
               !.errors = "none"]

\* Lines 79-110: async_step_user with an input.
StepUser(fl, user_input, r) ==
    LET d == Merge(Defaults, user_input)
        g == Invoked(fl, "user", d, r)
    IN  CASE r.raised = "CannotConnect" ->
                 [g EXCEPT !.step = "user", !.errors = "cannot_connect"]
          [] r.raised = "InvalidAuth" ->
                 [g EXCEPT !.step = "auth", !.data = user_input]
          [] r.raised = "Unexpected" ->
                 [g EXCEPT !.step = "user", !.errors = "unknown"]
          [] OTHER ->
                 [g EXCEPT !.step = "confirm", !.data = d]

\* Lines 117-138: async_step_confirm with an input.
StepConfirm(fl, r) ==
    LET g == Invoked(fl, "confirm", fl.data, r)
    IN  CASE r.raised = "CannotConnect" ->
                 [g EXCEPT !.step = "confirm", !.errors = "cannot_connect"]
          [] r.raised = "InvalidAuth" ->
                 [g EXCEPT !.step = "auth"]
          [] r.raised = "Unexpected" ->
                 [g EXCEPT !.step = "confirm", !.errors = "unknown"]
          [] OTHER ->
                 CHOOSE n \in {AddDevice(g, k, fl.data) : k \in r.key} : TRUE

\* Lines 153-172: async_step_auth with an input.
StepAuth(fl, user_input, r) ==
    LET d == Merge(fl.data, user_input)
        g == Invoked(fl, "auth", d, r)
    IN  CASE r.raised = "CannotConnect" ->
                 [g EXCEPT !.step = "auth", !.errors = "cannot_connect"]
          [] r.raised = "InvalidAuth" ->
                 [g EXCEPT !.step = "auth", !.errors = "invalid_auth"]
          [] r.raised = "Unexpected" ->
                 [g EXCEPT !.step = "auth", !.errors = "unknown"]
          [] OTHER ->
                 CHOOSE n \in {AddDevice(g, k, d) : k \in r.key} : TRUE

\* A flow has been started: the user form is shown (lines 103-110 with no
\* input) and some devices are configured already. step is the form shown
\* or how the flow ended, data is self.data, invoked the step invoked last,
\* raised and validated how its validate_input ended and on what, entry the
\* config entry created.
FlowInit ==
    /\ Setup
    /\ unit = NoUnit
    /\ hass = NoHass
    /\ service = NoCall
    /\ flow \in {[step |-> "user", data |-> Empty, errors |-> "none",
                  invoked |-> "none", raised |-> "none", validated |-> {},
                  entry |-> {}, configured |-> c] :
                 c \in SUBSET DeviceKeys}

\* The user form is submitted.
SubmitUser ==
    /\ flow.step = "user"
    /\ \E d \in UserInputs, r \in Validations : flow' = StepUser(flow, d, r)
    /\ UNCHANGED <<coordinator, unit, hass, service>>

\* Lines 174-230: a discovered device that was not ruled out enters
\* async_step_user with its hostname.
Zeroconf ==
    /\ flow.step = "user"
    /\ flow.invoked = "none"
    /\ \E d \in ZeroconfInputs, r \in Validations :
         flow' = StepUser([flow EXCEPT !.data = d], d, r)
    /\ UNCHANGED <<coordinator, unit, hass, service>>

\* The confirm form is submitted.
SubmitConfirm ==
    /\ flow.step = "confirm"
    /\ \E r \in Validations : flow' = StepConfirm(flow, r)
    /\ UNCHANGED <<coordinator, unit, hass, service>>

\* The auth form is submitted.
SubmitAuth ==
    /\ flow.step = "auth"
    /\ \E d \in AuthInputs, r \in Validations : flow' = StepAuth(flow, d, r)
    /\ UNCHANGED <<coordinator, unit, hass, service>>

FlowNext ==
    \/ SubmitUser
    \/ Zeroconf
    \/ SubmitConfirm
    \/ SubmitAuth

FlowSpec ==
    FlowInit /\ [][FlowNext]_vars

\* C32: an entry is created only by a step invocation whose validate_input
\* succeeded, on the data that is stored (add_device adds use_static_host =
\* False to it when the key is missing) and with the device key that
\* validation returned as unique id; a step whose validation ends in
\* CannotConnect, InvalidAuth or an unexpected error creates no entry:
\* CannotConnect and unexpected errors show the same form again with an
\* error, InvalidAuth leads from the user and confirm steps to the auth form
\* and shows the auth form again with an error in the auth step.
C32_EntryOnlyAfterValidation ==
    /\ [][flow'.entry # flow.entry
          => /\ flow.entry = {}
             /\ flow'.step = "created"
             /\ flow'.raised = "none"
             /\ flow'.entry = {[unique_id |-> v.key,
                                data |-> WithStaticHost(v.data)] :
                               v \in flow'.validated}
             /\ Cardinality(flow'.validated) = 1]_vars
    /\ [](flow.step = "created" <=> flow.entry # {})
    /\ [](flow.raised \in {"CannotConnect", "Unexpected"}
          => /\ flow.entry = {}
             /\ flow.step = flow.invoked
             /\ flow.errors = IF flow.raised = "CannotConnect"
                              THEN "cannot_connect"
                              ELSE "unknown")
    /\ [](flow.raised = "InvalidAuth"
          => /\ flow.entry = {}
             /\ flow.step = "auth"
             /\ flow.errors = IF flow.invoked = "auth"
                              THEN "invalid_auth"
                              ELSE "none")

\* An entry created by the auth step with the credentials the user typed,
\* for a device discovered without use_static_host.
C32_Witness ==
    /\ flow.step = "created"
    /\ flow.invoked = "auth"
    /\ \E e \in flow.entry :
         /\ e.data.username = "root"
         /\ e.data.password = "secret"
         /\ e.data.use_static_host = "False"
         /\ flow.data.use_static_host = "absent"
         /\ e.unique_id = 2

====
